---- MODULE Spec2Model ----
(***************************************************************************)
(* Model of SNDataExport.run() of davesSNBulkDataExportTool.py: one        *)
(* export run, from option validation to the finally block, against a     *)
(* remote that may answer every request with any response, or not at all.  *)
(***************************************************************************)
EXTENDS Integers, Sequences, FiniteSets, TLC

\* ---------------------------------------------------------------- bounds
MaxPageSize == 2
MaxRowLimit == 2
MaxFetches == 3

\* ------------------------------------------------------- class constants
AUTH_NONE == "none"
AUTH_BASIC == "basic"
INSTANCEURL_DEFAULT(name) == <<name, ".service-now.com">>

\* ------------------------------------------------------------ exceptions
NoExc == [kind |-> "none", status |-> 0, text |-> ""]
Exc(kind, text) == [kind |-> kind, status |-> 0, text |-> text]
HTTPError(status, text) == [kind |-> "HTTPError", status |-> status, text |-> text]

\* ---------------------------------------------------------------- inputs
\* A record of a page is an ordered mapping: a sequence of <<field, value>>.
RowAB == << <<"a", "1">>, <<"b", "2">> >>
RowBA == << <<"b", "3">>, <<"a", "4">> >>
RowABC == << <<"a", "6">>, <<"b", "7">>, <<"c", "8">> >>
Rows == {RowAB, RowBA, RowABC}

SeqsUpTo(S, n) == UNION {[1..k -> S] : k \in 0..n}

\* The JSON body of a response: an object with or without a "result" member,
\* which is a list of records or something else.
JsonBodies(pageSize) ==
    {[hasResult |-> FALSE, isList |-> FALSE, result |-> <<>>],
     [hasResult |-> TRUE, isList |-> FALSE, result |-> <<>>]}
    \cup {[hasResult |-> TRUE, isList |-> TRUE, result |-> r] : r \in SeqsUpTo(Rows, pageSize)}

EmptyJson == [hasResult |-> TRUE, isList |-> TRUE, result |-> <<>>]

\* A response with a status line: its status, its body text when the body is
\* not JSON, and the JSON body.
Response(status, text, isJson, json) ==
    [conn |-> TRUE, status |-> status, text |-> text, isJson |-> isJson, json |-> json]

\* requests.get() got no response at all.
NoResponse == [conn |-> FALSE, status |-> 0, text |-> "", isJson |-> FALSE, json |-> EmptyJson]

\* Statuses other than 200 that raise_for_status() lets pass, and the bodies
\* they are run with: no result, an empty page and a page of one record.
PassingStatuses == {199, 300, 600}
PassingBodies ==
    {[hasResult |-> FALSE, isList |-> FALSE, result |-> <<>>],
     EmptyJson,
     [hasResult |-> TRUE, isList |-> TRUE, result |-> <<RowAB>>]}

Responses(pageSize) ==
    {Response(200, "", TRUE, j) : j \in JsonBodies(pageSize)}
    \cup {Response(s, "", TRUE, j) : s \in PassingStatuses, j \in PassingBodies}
    \cup {Response(200, "<html>", FALSE, EmptyJson),
          Response(404, "not found", TRUE, EmptyJson),
          Response(500, "server error", TRUE, EmptyJson),
          NoResponse}

\* The entry of ~/.netrc for the host of the instance: none, or a login and
\* a password.
NoNetrc == <<>>
Netrcs == {NoNetrc, <<"fromnetrc", "pw123">>}

\* The options of a run. Every combination of the instance, authentication
\* and output options is run with the smallest page size and no row limit;
\* every page size and row limit is run with one valid configuration.
AllOptions ==
    [instanceName : {"", "dev1"},
     instanceUrl : {"", "sn.example.com"},
     authType : {AUTH_NONE, AUTH_BASIC},
     basic_auth_username : {"", "admin"},
     basic_auth_password : {"", "secret"},
     pageSize : 1..MaxPageSize,
     row_limit : 0..MaxRowLimit,
     outputWritable : BOOLEAN]

Options ==
    {o \in AllOptions :
        \/ o.pageSize = 1 /\ o.row_limit = 0
        \/ /\ o.instanceName = "dev1" /\ o.instanceUrl = ""
           /\ o.authType = AUTH_BASIC
           /\ o.basic_auth_username = "admin" /\ o.basic_auth_password = "secret"
           /\ o.outputWritable}

\* ----------------------------------------------------------------- state
VARIABLES
    options,      \* self.options, set by setupOptions and setOption
    remote,       \* the remote instance: what it may answer to a request
    netrc,        \* the entry of ~/.netrc for the host of the instance
    pc,           \* position in run()
    instanceUrl,  \* self.instanceUrl
    csvFile,      \* self.csvFile: "unset" (no attribute), "open", "False"
    output,       \* the lines of the output file
    closeCount,   \* how often csvFile.close() was called
    requests,     \* the GET requests issued so far
    responses,    \* what the remote answered to each request (history)
    fetched,      \* the "result" list of every page fetched so far (history)
    counts,       \* firstResponseCount / pageResponseCount of every page so far
    pageSizeInt, pageIdx, pageOffset, rowLimit, rowCount,
    fieldnames,   \* csvWriter.fieldnames
    page,         \* the "result" list being streamed
    rowIdx,       \* position of the for loop in page
    exc           \* the exception in flight, then the one run() raised

vars == <<options, remote, netrc, pc, instanceUrl, csvFile, output, closeCount, requests, responses,
          fetched, counts,
          pageSizeInt, pageIdx, pageOffset, rowLimit, rowCount, fieldnames,
          page, rowIdx, exc>>

OldLine == [type |-> "old", cells |-> <<>>]

\* A remote that may answer every request with any response.
AnyRemote == [mode |-> "any", table |-> <<>>]

\* A remote that serves a table by offset, without errors.
TableRemote(t) == [mode |-> "table", table |-> t]

\* The state of a new SNDataExport before run().
InitRun ==
    /\ pc = "loadAndValidate"
    /\ instanceUrl = <<>>
    /\ csvFile = "unset"
    /\ output = <<OldLine>>
    /\ closeCount = 0
    /\ requests = <<>>
    /\ responses = <<>>
    /\ fetched = <<>>
    /\ counts = <<>>
    /\ pageSizeInt = 0
    /\ pageIdx = 0
    /\ pageOffset = 0
    /\ rowLimit = 0
    /\ rowCount = 0
    /\ fieldnames = <<>>
    /\ page = <<>>
    /\ rowIdx = 1
    /\ exc = NoExc

\* The inputs of a run that go together: a ~/.netrc entry is run with the
\* smallest page size and no row limit, and a table is small enough for the
\* run to end within MaxFetches.
InputsOK(o, rem, nrc) ==
    /\ nrc # NoNetrc => (o.pageSize = 1 /\ o.row_limit = 0)
    /\ rem.mode = "table" => Len(rem.table) <= MaxFetches * o.pageSize - 1

Init ==
    /\ options \in Options
    /\ remote = AnyRemote
    /\ netrc \in Netrcs
    /\ InputsOK(options, remote, netrc)
    /\ InitRun

\* The runs against a table whose records all have the same fields, starting
\* from a valid configuration.
TableRecords == {RowAB, RowBA}

InitTable ==
    /\ options \in {o \in Options : o.outputWritable /\ (o.instanceName # "" \/ o.instanceUrl # "")
                                   /\ (o.authType = AUTH_BASIC =>
                                         (o.basic_auth_username # "" /\ o.basic_auth_password # ""))}
    /\ remote \in {TableRemote(t) : t \in SeqsUpTo(TableRecords, MaxFetches * MaxPageSize - 1)}
    /\ netrc = NoNetrc
    /\ InputsOK(options, remote, netrc)
    /\ InitRun

\* ------------------------------------------------------- pure functions
\* loadAndValidate without the test of the password.
loadAndValidate_NoPasswordTest(o) ==
    LET url == IF o.instanceUrl # "" THEN <<o.instanceUrl>>
               ELSE IF o.instanceName # "" THEN INSTANCEURL_DEFAULT(o.instanceName)
               ELSE <<>>
        e == IF o.instanceUrl = "" /\ o.instanceName = ""
                 THEN Exc("ValueError", "Both instance name and instance URL cannot be empty")
             ELSE IF o.authType = AUTH_BASIC /\ o.basic_auth_username = ""
                 THEN Exc("ValueError", "Username cannot be empty when using basic authentication")
             ELSE NoExc
    IN [instanceUrl |-> url, exc |-> e]

\* loadAndValidate: the instance URL it leaves in self.instanceUrl and the
\* exception it raises, if any.
loadAndValidate(o) ==
    LET url == IF o.instanceUrl # "" THEN <<o.instanceUrl>>
               ELSE IF o.instanceName # "" THEN INSTANCEURL_DEFAULT(o.instanceName)
               ELSE <<>>
        e == IF o.instanceUrl = "" /\ o.instanceName = ""
                 THEN Exc("ValueError", "Both instance name and instance URL cannot be empty")
             ELSE IF o.authType = AUTH_BASIC /\ o.basic_auth_username = ""
                 THEN Exc("ValueError", "Username cannot be empty when using basic authentication")
             ELSE IF o.authType = AUTH_BASIC /\ o.basic_auth_password = ""
                 THEN Exc("ValueError", "Password cannot be empty when using basic authentication")
             ELSE NoExc
    IN [instanceUrl |-> url, exc |-> e]

\* open(mode='a'): the file keeps its content.
ContentAfterOpen_Append(old) == old

\* open(file=filename, mode='w'): the file is created or truncated.
ContentAfterOpen(old) == <<>>

\* A cleanup that removes what was written.
ContentAfterClose_Removed(written) == <<>>

\* csvFile.close(): everything written stays in the file.
ContentAfterClose(written) == written

\* closeOutputFile that resets the attribute without closing the handle.
closeOutputFile_NoClose(f) ==
    IF f = "unset" THEN [csvFile |-> f, closed |-> 0, exc |-> Exc("AttributeError", "csvFile")]
    ELSE [csvFile |-> f, closed |-> 0, exc |-> NoExc]

\* closeOutputFile: the handle afterwards, whether close() was called, and
\* the exception it raises (reading an attribute that was never set).
closeOutputFile(f) ==
    IF f = "unset" THEN [csvFile |-> f, closed |-> 0, exc |-> Exc("AttributeError", "csvFile")]
    ELSE IF f = "open" THEN [csvFile |-> "False", closed |-> 1, exc |-> NoExc]
    ELSE [csvFile |-> f, closed |-> 0, exc |-> NoExc]

\* getResultCountFromJson without the isinstance test.
getResultCountFromJson_NoTypeTest(json) ==
    IF ~json.hasResult THEN [count |-> 0, exc |-> Exc("KeyError", "result")]
    ELSE [count |-> Len(json.result), exc |-> NoExc]

\* getResultCountFromJson: the count, or the exception of a missing or
\* non-list "result".
getResultCountFromJson(json) ==
    IF ~json.hasResult THEN [count |-> 0, exc |-> Exc("KeyError", "result")]
    ELSE IF ~json.isList
        THEN [count |-> 0,
              exc |-> Exc("TypeError", "'result' in response body is either missing or is not an array")]
    ELSE [count |-> Len(json.result), exc |-> NoExc]

\* getHeaderNamesFromJson that returns the names in reverse.
getHeaderNamesFromJson_Reversed(row) == [i \in 1..Len(row) |-> row[Len(row) + 1 - i][1]]

getHeaderNamesFromJson(row) == [i \in 1..Len(row) |-> row[i][1]]

\* The request makeRequest sends: the URL host, the parameters and the auth.
\* With auth=False, requests sends the ~/.netrc entry of the host, if any.
RequestOf(o, host, params, nrc) ==
    [host |-> host,
     params |-> params,
     auth |-> IF o.authType = AUTH_BASIC
                  THEN <<o.basic_auth_username, o.basic_auth_password>>
                  ELSE nrc]

\* makeRequest that raises for a server error only.
makeRequest_Only5xx(resp) ==
    IF ~resp.conn THEN Exc("ConnectionError", "")
    ELSE IF resp.status >= 500 /\ resp.status < 600 THEN HTTPError(resp.status, resp.text)
    ELSE NoExc

\* makeRequest: requests.get() raises when it gets no response, and
\* raise_for_status() raises for a 4xx or 5xx status.
makeRequest(resp) ==
    IF ~resp.conn THEN Exc("ConnectionError", "")
    ELSE IF resp.status >= 400 /\ resp.status < 600 THEN HTTPError(resp.status, resp.text)
    ELSE NoExc

\* response.json(): the parsed body, or JSONDecodeError.
responseJson(resp) ==
    IF resp.isJson THEN [json |-> resp.json, exc |-> NoExc]
    ELSE [json |-> EmptyJson, exc |-> Exc("JSONDecodeError", resp.text)]

\* The page offset that adds the page size to the page index.
PageOffsetOf_AddSize(idx, size) == idx + size

\* The offset of the page with index idx.
PageOffsetOf(idx, size) == idx * size

\* The row-limit test that takes a limit of 0 for a limit.
RowLimitReached_NoZeroTest(limit, count) == count > limit

\* The row-limit test of both streaming loops.
RowLimitReached(limit, count) == limit > 0 /\ count > limit

\* The empty-result test that never holds.
NoDataReturned_Never(count) == count < 0

\* The empty-result test after the first page.
NoDataReturned(count) == count = 0

\* The end-of-data test that takes a full page for the last one.
NoMorePages_FullPageEnds(count, pageSize) == count <= pageSize

\* The end-of-data test that waits for an empty page.
NoMorePages_EmptyPageEnds(count, pageSize) == count = 0

\* The end-of-data test after each page.
NoMorePages(count, pageSize) == count < pageSize

\* csv.DictWriter.writerow: a field outside fieldnames raises ValueError, a
\* missing one is written as the empty string.
RowKeys(row) == {row[i][1] : i \in 1..Len(row)}
RowValue(row, k) ==
    IF k \in RowKeys(row) THEN (CHOOSE i \in 1..Len(row) : row[i][1] = k) ELSE 0
Cell(row, k) == IF RowValue(row, k) = 0 THEN "" ELSE row[RowValue(row, k)][2]
Range(s) == {s[i] : i \in 1..Len(s)}
\* writerow that writes the values of the record in the record's own order.
writerow_RecordOrder(names, row) ==
    IF RowKeys(row) \ Range(names) # {}
        THEN [line |-> <<>>, exc |-> Exc("ValueError", "dict contains fields not in fieldnames")]
        ELSE [line |-> [i \in 1..Len(row) |-> row[i][2]], exc |-> NoExc]

writerow(names, row) ==
    IF RowKeys(row) \ Range(names) # {}
        THEN [line |-> <<>>, exc |-> Exc("ValueError", "dict contains fields not in fieldnames")]
        ELSE [line |-> [i \in 1..Len(names) |-> Cell(row, names[i])], exc |-> NoExc]

HeaderLine(names) == [type |-> "header", cells |-> names]
RowLine(cells) == [type |-> "row", cells |-> cells]

\* ---------------------------------------------------------------- actions
Raise(e) ==
    /\ exc' = e
    /\ pc' = "finally"

Return ==
    /\ exc' = NoExc
    /\ pc' = "finally"

\* run(), line 95: self.loadAndValidate()
LoadAndValidate ==
    /\ pc = "loadAndValidate"
    /\ LET r == loadAndValidate(options)
       IN /\ instanceUrl' = r.instanceUrl
          /\ IF r.exc # NoExc THEN Raise(r.exc)
             ELSE exc' = exc /\ pc' = "openOutputFile"
    /\ UNCHANGED <<options, remote, netrc, csvFile, output, closeCount, requests, responses, fetched,
                   counts, pageSizeInt, pageIdx, pageOffset, rowLimit, rowCount, fieldnames,
                   page, rowIdx>>

\* run(), line 97: self.openOutputFile(); open(mode='w') truncates the file.
OpenOutputFile ==
    /\ pc = "openOutputFile"
    /\ IF options.outputWritable
          THEN /\ csvFile' = "open"
               /\ output' = ContentAfterOpen(output)
               /\ exc' = exc
               /\ pc' = "firstRequest"
          ELSE /\ Raise(Exc("OSError", "open"))
               /\ UNCHANGED <<csvFile, output>>
    /\ UNCHANGED <<options, remote, netrc, instanceUrl, closeCount, requests, responses, fetched, counts,
                   pageSizeInt, pageIdx, pageOffset, rowLimit, rowCount, fieldnames, page,
                   rowIdx>>

\* The page of a table at an offset: rows offset .. min(offset + limit, N) - 1.
TablePage(t, offset, limit) ==
    SubSeq(t, offset + 1, IF offset + limit < Len(t) THEN offset + limit ELSE Len(t))

\* The responses the remote may give to a request for offset and limit.
Served(rem, offset, limit) ==
    IF rem.mode = "any" THEN Responses(limit)
    ELSE {Response(200, "", TRUE,
                   [hasResult |-> TRUE, isList |-> TRUE,
                    result |-> TablePage(rem.table, offset, limit)])}

\* What the remote answered, without the rows.
Answer(resp) ==
    [conn |-> resp.conn, status |-> resp.status, text |-> resp.text, isJson |-> resp.isJson,
     hasResult |-> resp.json.hasResult, isList |-> resp.json.isList]

\* The outcome of one request: the exception of makeRequest, of
\* response.json() or of getResultCountFromJson, or the page.
Fetched(resp) ==
    IF makeRequest(resp) # NoExc THEN [exc |-> makeRequest(resp), count |-> 0, rows |-> <<>>]
    ELSE IF responseJson(resp).exc # NoExc
        THEN [exc |-> responseJson(resp).exc, count |-> 0, rows |-> <<>>]
    ELSE [exc |-> getResultCountFromJson(responseJson(resp).json).exc,
          count |-> getResultCountFromJson(responseJson(resp).json).count,
          rows |-> responseJson(resp).json.result]

\* run(), lines 100-123: the counters, the common parameters and the first
\* request, which carries no sysparm_offset.
FirstRequest ==
    /\ pc = "firstRequest"
    /\ pageSizeInt' = options.pageSize
    /\ pageIdx' = 0
    /\ pageOffset' = 0
    /\ rowLimit' = options.row_limit
    /\ rowCount' = 0
    /\ requests' = Append(requests,
           RequestOf(options, instanceUrl,
                     [sysparm_limit |-> options.pageSize, hasOffset |-> FALSE, sysparm_offset |-> 0],
                     netrc))
    /\ \E resp \in Served(remote, 0, options.pageSize) :
         LET f == Fetched(resp)
         IN /\ responses' = Append(responses, Answer(resp))
            /\ IF f.exc # NoExc
                  THEN Raise(f.exc) /\ UNCHANGED <<fetched, counts, page>>
               ELSE /\ fetched' = Append(fetched, f.rows)
                    /\ counts' = Append(counts, f.count)
                    /\ page' = f.rows
                    /\ IF NoDataReturned(f.count) THEN Return
                       ELSE exc' = exc /\ pc' = "writeHeader"
    /\ UNCHANGED <<options, remote, netrc, instanceUrl, csvFile, output, closeCount, fieldnames, rowIdx>>

\* run(), lines 125-134: the DictWriter and its header line.
WriteHeader ==
    /\ pc = "writeHeader"
    /\ IF page = <<>>
          THEN /\ Raise(Exc("IndexError", "list index out of range"))
               /\ UNCHANGED <<fieldnames, output, rowIdx>>
          ELSE /\ fieldnames' = getHeaderNamesFromJson(page[1])
               /\ output' = Append(output, HeaderLine(fieldnames'))
               /\ rowIdx' = 1
               /\ exc' = exc
               /\ pc' = "firstRows"
    /\ UNCHANGED <<options, remote, netrc, instanceUrl, csvFile, closeCount, requests, responses, fetched,
                   counts, pageSizeInt, pageIdx, pageOffset, rowLimit, rowCount, page>>

\* One iteration of a streaming loop that writes its row.
StreamRow(at) ==
    /\ pc = at
    /\ rowIdx <= Len(page)
    /\ ~RowLimitReached(rowLimit, rowCount)
    /\ LET w == writerow(fieldnames, page[rowIdx])
       IN IF w.exc # NoExc
             THEN Raise(w.exc) /\ UNCHANGED <<output, rowCount, rowIdx>>
          ELSE /\ output' = Append(output, RowLine(w.line))
               /\ rowCount' = rowCount + 1
               /\ rowIdx' = rowIdx + 1
               /\ UNCHANGED <<pc, exc>>
    /\ UNCHANGED <<options, remote, netrc, instanceUrl, csvFile, closeCount, requests, responses, fetched,
                   counts, pageSizeInt, pageIdx, pageOffset, rowLimit, fieldnames, page>>

\* The end of a streaming loop (exhausted, or left by break) and the test
\* that follows it.
StreamEnd(at) ==
    /\ pc = at
    /\ rowIdx > Len(page) \/ RowLimitReached(rowLimit, rowCount)
    /\ IF NoMorePages(counts[Len(counts)], pageSizeInt) THEN Return
       ELSE exc' = exc /\ pc' = "pageRequest"
    /\ UNCHANGED <<options, remote, netrc, instanceUrl, csvFile, output, closeCount, requests, responses,
                   fetched, counts, pageSizeInt, pageIdx, pageOffset, rowLimit, rowCount,
                   fieldnames, page, rowIdx>>

\* run(), lines 139-144
FirstWriteRow == StreamRow("firstRows")

\* run(), lines 139-142 and 147-149
FirstRowsEnd == StreamEnd("firstRows")

\* run(), lines 152-165: the next page.
PageRequest ==
    /\ pc = "pageRequest"
    /\ Len(requests) < MaxFetches
    /\ pageIdx' = pageIdx + 1
    /\ pageOffset' = PageOffsetOf(pageIdx', pageSizeInt)
    /\ requests' = Append(requests,
           RequestOf(options, instanceUrl,
                     [sysparm_limit |-> options.pageSize, hasOffset |-> TRUE,
                      sysparm_offset |-> pageOffset'],
                     netrc))
    /\ \E resp \in Served(remote, pageOffset', options.pageSize) :
         LET f == Fetched(resp)
         IN /\ responses' = Append(responses, Answer(resp))
            /\ IF f.exc # NoExc
                  THEN Raise(f.exc) /\ UNCHANGED <<fetched, counts, page, rowIdx>>
               ELSE /\ fetched' = Append(fetched, f.rows)
                    /\ counts' = Append(counts, f.count)
                    /\ page' = f.rows
                    /\ rowIdx' = 1
                    /\ exc' = exc
                    /\ pc' = "pageRows"
    /\ UNCHANGED <<options, remote, netrc, instanceUrl, csvFile, output, closeCount, pageSizeInt, rowLimit,
                   rowCount, fieldnames>>

\* run(), lines 168-174
PageWriteRow == StreamRow("pageRows")

\* run(), lines 168-171 and 176-178
PageRowsEnd == StreamEnd("pageRows")

\* run(), lines 180-184: the exception, if any, is re-raised, and the
\* finally block calls closeOutputFile, whose own exception replaces it.
Finally ==
    /\ pc = "finally"
    /\ LET r == closeOutputFile(csvFile)
       IN /\ csvFile' = r.csvFile
          /\ closeCount' = closeCount + r.closed
          /\ output' = IF r.closed = 1 THEN ContentAfterClose(output) ELSE output
          /\ exc' = IF r.exc # NoExc THEN r.exc ELSE exc
    /\ pc' = "terminated"
    /\ UNCHANGED <<options, remote, netrc, instanceUrl, requests, responses, fetched, counts,
                   pageSizeInt, pageIdx, pageOffset, rowLimit, rowCount, fieldnames, page,
                   rowIdx>>

\* setOption(name, value), called by the owner of the object before run().
SetOption ==
    /\ pc = "loadAndValidate"
    /\ \E name \in DOMAIN options :
         \E value \in {o[name] : o \in Options} :
            /\ value # options[name]
            /\ [options EXCEPT ![name] = value] \in Options
            /\ InputsOK([options EXCEPT ![name] = value], remote, netrc)
            /\ options' = [options EXCEPT ![name] = value]
    /\ UNCHANGED <<remote, netrc, pc, instanceUrl, csvFile, output, closeCount, requests,
                   responses, fetched, counts, pageSizeInt, pageIdx, pageOffset, rowLimit,
                   rowCount, fieldnames, page, rowIdx, exc>>

\* A step of run().
Run ==
    \/ LoadAndValidate
    \/ OpenOutputFile
    \/ FirstRequest
    \/ WriteHeader
    \/ FirstWriteRow
    \/ FirstRowsEnd
    \/ PageRequest
    \/ PageWriteRow
    \/ PageRowsEnd
    \/ Finally

Next ==
    \/ SetOption
    \/ Run

Spec == Init /\ [][Next]_vars

\* The script calls run(), and run() is sequential code: it always takes its
\* next step.
SpecTable == InitTable /\ [][Next]_vars /\ WF_vars(Run)

TypeOK ==
    /\ pc \in {"loadAndValidate", "openOutputFile", "firstRequest", "writeHeader", "firstRows",
               "pageRequest", "pageRows", "finally", "terminated"}
    /\ csvFile \in {"unset", "open", "False"}
    /\ rowCount \in Nat

\* ------------------------------------------------------------ vocabulary
IsRow(line) == line.type = "row"
IsHeader(line) == line.type = "header"
DataRows == SelectSeq(output, IsRow)
NumDataRows == Len(DataRows)

RECURSIVE SumSeq(_)
SumSeq(s) == IF s = <<>> THEN 0 ELSE s[1] + SumSeq(Tail(s))
RowsFetched == SumSeq(counts)

Terminated == pc = "terminated"
Succeeded == Terminated /\ exc = NoExc
Failed == Terminated /\ exc # NoExc
EmptyResult == Succeeded /\ counts = <<0>>
Done == Succeeded /\ counts # <<0>>
Opened == csvFile # "unset"

InvalidConfig(o) ==
    \/ o.instanceName = "" /\ o.instanceUrl = ""
    \/ o.authType = AUTH_BASIC /\ (o.basic_auth_username = "" \/ o.basic_auth_password = "")

ShortPage(i) == counts[i] < options.pageSize
FullPage(i) == counts[i] = options.pageSize

\* ---------------------------------------------------------------- claims
\* C1 (as claimed): with a row limit, the number of data rows written never
\* exceeds the limit, and a run that fetched at least that many rows ends
\* with exactly rowLimit data rows.
C1_RowLimitExact ==
    options.row_limit > 0 =>
        /\ NumDataRows <= options.row_limit
        /\ rowCount <= options.row_limit
        /\ (Succeeded /\ RowsFetched >= options.row_limit) => NumDataRows = options.row_limit

\* C2: no request is issued after a page with fewer rows than the page size,
\* and a run ends normally only right after such a page, all pages before it
\* being full: k full pages and a short one make exactly k+1 fetches.
C2_StopsAfterShortPage ==
    /\ \A i \in 1..Len(counts) :
         ShortPage(i) => Len(requests) = i /\ pc # "pageRequest"
    /\ Succeeded =>
         /\ counts # <<>>
         /\ ShortPage(Len(counts))
         /\ \A i \in 1..(Len(counts) - 1) : FullPage(i)
         /\ Len(requests) = Len(counts)

C2_Witness ==
    /\ Done
    /\ options.pageSize = 2
    /\ counts = <<2, 2, 1>>
    /\ Len(requests) = 3

\* C3 (as claimed): once as many data rows as the row limit are written, no
\* further request is issued.
C3_NoFetchAfterRowLimit ==
    [][(options.row_limit > 0 /\ NumDataRows >= options.row_limit) => requests' = requests]_vars

\* C4: the handle is closed at most once, never while the run still uses it,
\* and exactly once by the time a run that opened the file has ended; no
\* ended run leaves the handle open.
C4_ClosedExactlyOnce ==
    /\ closeCount <= 1
    /\ csvFile = "open" => closeCount = 0
    /\ Terminated => csvFile # "open" /\ (Opened => closeCount = 1)

C4_Witness ==
    /\ Failed
    /\ exc.kind = "ValueError"
    /\ Len(requests) >= 2
    /\ NumDataRows >= 1
    /\ closeCount = 1
    /\ csvFile = "False"

\* C5 (as claimed): a run with an invalid configuration ends with the
\* configuration error (a ValueError of loadAndValidate) as its error.
C5_ConfigErrorSurfaced ==
    (Terminated /\ InvalidConfig(options)) => exc.kind = "ValueError"

\* C6: a run with an invalid configuration never issues a request.
C6_NoFetchOnInvalidConfig ==
    InvalidConfig(options) =>
        /\ requests = <<>>
        /\ responses = <<>>
        /\ pc \in {"loadAndValidate", "finally", "terminated"}

C6_Witness ==
    /\ Terminated
    /\ options.instanceName # ""
    /\ options.authType = AUTH_BASIC
    /\ options.basic_auth_username # ""
    /\ options.basic_auth_password = ""
    /\ requests = <<>>

NonSuccess(i) ==
    /\ responses[i].conn
    /\ responses[i].status < 200 \/ responses[i].status > 299
ErrorStatus(i) ==
    /\ responses[i].conn
    /\ responses[i].status >= 400 /\ responses[i].status <= 599
Malformed(i) ==
    /\ responses[i].conn
    /\ ~NonSuccess(i)
    /\ responses[i].isJson
    /\ ~responses[i].hasResult \/ ~responses[i].isList
FailedFetch(i) ==
    \/ ~responses[i].conn
    \/ ErrorStatus(i)
    \/ ~responses[i].isJson
    \/ ~responses[i].hasResult \/ ~responses[i].isList

\* C7 (as claimed): after a response with a non-success status (any status
\* outside 200..299) the run is on its way out with an HTTPError that carries
\* the status and the body of that response, it ends with the file closed,
\* and from then on no request is issued and nothing is written.
C7_NonSuccessAborts ==
    /\ [](\A i \in 1..Len(responses) :
            NonSuccess(i) =>
                /\ Len(requests) = i
                /\ pc \in {"finally", "terminated"}
                /\ exc = HTTPError(responses[i].status, responses[i].text)
                /\ Terminated => csvFile = "False")
    /\ [][(\E i \in 1..Len(responses) : NonSuccess(i))
            => (output' = output /\ requests' = requests)]_vars

\* C7 (amended): after a response with a 4xx or 5xx status the run is on its
\* way out with an HTTPError that carries the status and the body of that
\* response, it ends with the file closed, and from then on no request is
\* issued and nothing is written; a response with any other status is not
\* refused for its status.
C7_HttpErrorAborts ==
    /\ [](/\ \A i \in 1..Len(responses) :
                ErrorStatus(i) =>
                    /\ Len(requests) = i
                    /\ pc \in {"finally", "terminated"}
                    /\ exc = HTTPError(responses[i].status, responses[i].text)
                    /\ Terminated => csvFile = "False"
          /\ (\A i \in 1..Len(responses) : ~ErrorStatus(i)) => exc.kind # "HTTPError")
    /\ [][(\E i \in 1..Len(responses) : ErrorStatus(i))
            => (output' = output /\ requests' = requests)]_vars

C7_Witness ==
    /\ Failed
    /\ Len(responses) = 2
    /\ responses[2].status = 404
    /\ exc.kind = "HTTPError" /\ exc.status = 404 /\ exc.text = "not found"
    /\ NumDataRows >= 1
    /\ csvFile = "False"

\* C8: when the first page has no rows, there is exactly one request, the
\* output stays empty (no header, no row), no error is raised and the run
\* ends with the file closed, without entering the paging loop.
C8_EmptyFirstPage ==
    (fetched # <<>> /\ fetched[1] = <<>>) =>
        /\ Len(requests) = 1
        /\ output = <<>>
        /\ pageIdx = 0
        /\ pc \in {"finally", "terminated"}
        /\ exc = NoExc
        /\ Terminated => (csvFile = "False" /\ closeCount = 1)

C8_Witness ==
    /\ EmptyResult
    /\ fetched = << <<>> >>
    /\ Len(requests) = 1
    /\ output = <<>>

\* C9: after a successful response without "result", or with a "result" that
\* is no list, the run is on its way out with an error, it ends with the file
\* closed, and from then on no request is issued and nothing is written.
C9_MalformedResultAborts ==
    /\ [](\A i \in 1..Len(responses) :
            Malformed(i) =>
                /\ Len(requests) = i
                /\ Len(fetched) = i - 1
                /\ pc \in {"finally", "terminated"}
                /\ exc.kind \in {"KeyError", "TypeError"}
                /\ Terminated => csvFile = "False")
    /\ [][(\E i \in 1..Len(responses) : Malformed(i))
            => (output' = output /\ requests' = requests)]_vars

C9_Witness ==
    /\ Failed
    /\ Len(responses) = 2
    /\ responses[2].status = 200 /\ responses[2].hasResult /\ ~responses[2].isList
    /\ exc.kind = "TypeError"
    /\ NumDataRows >= 1
    /\ csvFile = "False"

KeysInOrder(row) == [i \in 1..Len(row) |-> row[i][1]]
HeaderWritten == output # <<>> /\ IsHeader(output[1])

\* C10: a header line is only ever the first line and every data row comes
\* after it; the header, once written, is the field names of the first row of
\* the first page, in that row's order, and stays the writer's column list;
\* a non-empty first page has its header written before anything else is done.
C10_HeaderOnceFromFirstRow ==
    /\ \A i \in 1..Len(output) :
         /\ IsHeader(output[i]) => i = 1
         /\ IsRow(output[i]) => HeaderWritten
    /\ HeaderWritten =>
         /\ fetched # <<>> /\ fetched[1] # <<>>
         /\ output[1].cells = KeysInOrder(fetched[1][1])
         /\ fieldnames = output[1].cells
    /\ (fetched # <<>> /\ fetched[1] # <<>> /\ pc # "writeHeader") => HeaderWritten

C10_Witness ==
    /\ Done
    /\ HeaderWritten
    /\ output[1].cells = <<"b", "a">>
    /\ Len(requests) >= 2
    /\ NumDataRows >= 3

RECURSIVE Flatten(_)
Flatten(ss) == IF ss = <<>> THEN <<>> ELSE ss[1] \o Flatten(Tail(ss))
\* The records of every fetched page, in fetch order and in-page order.
FetchedRecords == Flatten(fetched)

HasField(rec, k) == \E i \in 1..Len(rec) : rec[i][1] = k
ValueIn(rec, k) ==
    IF HasField(rec, k) THEN rec[CHOOSE i \in 1..Len(rec) : rec[i][1] = k][2] ELSE ""

\* C11: the j-th data row written has as many cells as the header has fields,
\* and its i-th cell is the value the j-th fetched record has for the i-th
\* header field (empty when the record lacks the field), whatever the
\* record's own field order.
C11_RowsFollowHeader ==
    [](LET rows == DataRows
           recs == FetchedRecords
       IN \A j \in 1..Len(rows) :
            /\ j <= Len(recs)
            /\ Len(rows[j].cells) = Len(output[1].cells)
            /\ \A i \in 1..Len(output[1].cells) :
                 rows[j].cells[i] = ValueIn(recs[j], output[1].cells[i]))

C11_Witness ==
    /\ HeaderWritten
    /\ output[1].cells = <<"a", "b", "c">>
    /\ NumDataRows >= 2
    /\ DataRows[2].cells = <<"4", "3", "">>

ValidInstance(o) == o.instanceName # "" \/ o.instanceUrl # ""

\* C12 (as claimed): with authType none the run never fails in validation,
\* whatever the username and password are, and no request carries
\* credentials; with authType basic every request carries the configured
\* username and password.
C12_AuthOnEveryRequest ==
    /\ (options.authType = AUTH_NONE /\ ValidInstance(options)) =>
         /\ pc = "finally" => (exc.kind # "ValueError" \/ requests # <<>>)
         /\ \A n \in 1..Len(requests) : requests[n].auth = <<>>
    /\ options.authType = AUTH_BASIC =>
         \A n \in 1..Len(requests) :
            /\ requests[n].auth = <<options.basic_auth_username, options.basic_auth_password>>
            /\ options.basic_auth_username # "" /\ options.basic_auth_password # ""

\* The offset a request asks for: sysparm_offset, or the start of the table
\* when the request carries none.
OffsetOf(req) == IF req.params.hasOffset THEN req.params.sysparm_offset ELSE 0

\* C13: the n-th request (counted from 0) asks for offset n * pageSize with
\* limit pageSize; after any request pageIdx is the number of requests minus
\* one and pageOffset is pageIdx * pageSize; offsets grow strictly.
C13_OffsetsByPage ==
    /\ \A n \in 1..Len(requests) :
         /\ OffsetOf(requests[n]) = (n - 1) * options.pageSize
         /\ requests[n].params.sysparm_limit = options.pageSize
    /\ \A m, n \in 1..Len(requests) : m < n => OffsetOf(requests[m]) < OffsetOf(requests[n])
    /\ requests # <<>> =>
         /\ pageIdx = Len(requests) - 1
         /\ pageOffset = pageIdx * options.pageSize
         /\ pageOffset = OffsetOf(requests[Len(requests)])

C13_Witness ==
    /\ options.pageSize = 2
    /\ Len(requests) = 3
    /\ ~requests[1].params.hasOffset
    /\ requests[2].params.sysparm_offset = 2
    /\ requests[3].params.sysparm_offset = 4
    /\ pageIdx = 2

RecordValues(rec) == {rec[i][2] : i \in 1..Len(rec)}
CellValues(line) == {line.cells[i] : i \in 1..Len(line.cells)} \ {""}

\* C14: the j-th data row written holds the values of the j-th fetched
\* record, so the rows written are always a prefix of the fetched records in
\* fetch order and in-page order; without a row limit a run that ends
\* normally has written every fetched record.
C14_RowsAreFetchedRecords ==
    [](LET rows == DataRows
           recs == FetchedRecords
       IN /\ Len(rows) <= Len(recs)
          /\ \A j \in 1..Len(rows) : CellValues(rows[j]) = RecordValues(recs[j])
          /\ (options.row_limit = 0 /\ Succeeded) => Len(rows) = Len(recs))

C14_Witness ==
    /\ Done
    /\ options.row_limit = 0
    /\ fetched = << <<RowBA, RowAB>>, <<RowAB, RowBA>>, <<RowBA>> >>
    /\ NumDataRows = 5

\* C15: against a table of N records served by offset, a run terminates, and
\* a run of a valid configuration ends normally after exactly
\* N \div pageSize + 1 requests having fetched every record of the table in
\* order, also when N is a multiple of pageSize.
C15_TableRunTerminates ==
    /\ <>Terminated
    /\ []((Terminated /\ ~InvalidConfig(options) /\ options.outputWritable) =>
            /\ Succeeded
            /\ Len(requests) = (Len(remote.table) \div options.pageSize) + 1
            /\ FetchedRecords = remote.table)

C15_Witness ==
    /\ Done
    /\ remote.mode = "table"
    /\ options.pageSize = 2
    /\ Len(remote.table) = 4
    /\ Len(requests) = 3
    /\ fetched[3] = <<>>

IsPrefix(s, t) == Len(s) <= Len(t) /\ SubSeq(t, 1, Len(s)) = s

\* C16: once the file is open, a step only ever appends to the output, and a
\* step that raises an error, or is taken with an error in flight, leaves the
\* output as it is: the abort removes nothing, rewrites nothing and writes
\* nothing more.
C16_AbortKeepsOutput ==
    [][/\ csvFile # "unset" => IsPrefix(output, output')
       /\ exc' # NoExc => output' = output]_vars

C16_Witness ==
    /\ Failed
    /\ Len(responses) = 3
    /\ exc.kind = "KeyError"
    /\ HeaderWritten
    /\ NumDataRows >= 2
    /\ csvFile = "False"

\* C17: a run whose validation fails never opens or truncates the output
\* file; a run whose open fails issues no request; by the first request the
\* file is open and truncated, so a failing first request leaves it empty.
C17_ValidateOpenFetch ==
    /\ InvalidConfig(options) => (csvFile = "unset" /\ output = <<OldLine>>)
    /\ ~options.outputWritable => (requests = <<>> /\ csvFile = "unset" /\ output = <<OldLine>>)
    /\ requests # <<>> =>
         /\ csvFile # "unset"
         /\ \A i \in 1..Len(output) : output[i] # OldLine
    /\ (Len(responses) = 1 /\ FailedFetch(1)) => output = <<>>

C17_Witness ==
    /\ Failed
    /\ Len(responses) = 1
    /\ responses[1].status = 500
    /\ output = <<>>
    /\ closeCount = 1

====
